---- MODULE Spec2Model ----
(***************************************************************************)
(* Model of the rustOS kernel's virtual-memory core (kern/src/vm/          *)
(* pagetable.rs), its boot sequence (kern/src/main.rs) and the FAT32       *)
(* master-boot-record parser (lib/fat32/src/mbr.rs).                       *)
(*                                                                         *)
(* Every operation is observed as one call: `call` records the operation,  *)
(* its arguments and how it ended ("returned", "panicked" or, for the      *)
(* self-recursive as_ptr, "stack_exhausted").                              *)
(*                                                                         *)
(* 64-bit values are kept as four 16-bit limbs, least significant first    *)
(* (TLC's integers are 32 bits wide), so shifts and masks are computed on  *)
(* the full width.                                                         *)
(***************************************************************************)
EXTENDS Integers, Sequences, FiniteSets, TLC

(***************************************************************************)
(* u64 arithmetic on limbs                                                 *)
(***************************************************************************)
\* x >> 16
Shr16(x) == <<x[2], x[3], x[4], 0>>

\* x >> 13
Shr13(x) ==
  [i \in 1..4 |-> (x[i] \div 8192) + (IF i < 4 THEN (x[i + 1] % 8192) * 8 ELSE 0)]

\* x & 0x1FFF
And1FFF(x) == <<x[1] % 8192, 0, 0, 0>>

\* x as usize, for values below 2^16 (every masked index is)
AsUsize(x) == x[1]

\* a < b on u64
LtU64(a, b) ==
  \E i \in 1..4 : a[i] < b[i] /\ \A j \in (i + 1)..4 : a[j] = b[j]

\* n << 16 as a u64, for n below 2^31
ShlU64_16(n) == <<0, n % 65536, n \div 65536, 0>>

(***************************************************************************)
(* Program constants                                                       *)
(***************************************************************************)
\* the translation granule: #[repr(align(65536))], PAGE_SIZE
PAGE_SIZE == 65536

\* entries of one L3 table: PAGE_SIZE / size_of::<L3Entry>()
L3_ENTRIES == 8192

\* `pub l3: [L3PageTable; 2]` and `let num_l3 = 2`
NUM_L3 == 2

\* va.as_u64() as usize % PAGE_SIZE
ModPageSize(va) == va[1] % PAGE_SIZE

(***************************************************************************)
(* PageTable::locate                                                       *)
(***************************************************************************)
Panicked(msg) == [outcome |-> "panicked", msg |-> msg]

Returned(v) == [outcome |-> "returned", ret |-> v]

\* a plausible slip: the L3 index masked to 12 bits (0xFFF) instead of 13
locate_mask12(va) ==
  IF ModPageSize(va) # 0 THEN Panicked("assert_eq")
  ELSE LET l3_index == <<Shr16(va)[1] % 4096, 0, 0, 0>>
           l2_index == And1FFF(Shr13(Shr16(va)))
       IN IF ~(AsUsize(l2_index) < NUM_L3) THEN Panicked("assert")
          ELSE Returned([l3_index |-> AsUsize(l3_index), l2_index |-> AsUsize(l2_index)])

\* a plausible slip: alignment checked against 4 KiB pages
locate_align4k(va) ==
  IF va[1] % 4096 # 0 THEN Panicked("assert_eq")
  ELSE LET l3_index == And1FFF(Shr16(va))
           l2_index == And1FFF(Shr13(Shr16(va)))
       IN IF ~(AsUsize(l2_index) < NUM_L3) THEN Panicked("assert")
          ELSE Returned([l3_index |-> AsUsize(l3_index), l2_index |-> AsUsize(l2_index)])

\* fn locate(va: VirtualAddr) -> (usize, usize); the tuple it returns is
\* (l3_index, l2_index), kept here under the names the code gives the parts
locate(va) ==
  IF ModPageSize(va) # 0 THEN Panicked("assert_eq")
  ELSE LET l3_index == And1FFF(Shr16(va))
           l2_index == And1FFF(Shr13(Shr16(va)))
       IN IF ~(AsUsize(l2_index) < NUM_L3) THEN Panicked("assert")
          ELSE Returned([l3_index |-> AsUsize(l3_index), l2_index |-> AsUsize(l2_index)])

(***************************************************************************)
(* Inputs                                                                  *)
(***************************************************************************)
\* limb values around every boundary the code looks at: alignment (limb 1),
\* the L3/L2 index split at bit 29, the ends of RAM and of the peripheral
\* range and the window end at bit 30 (limb 2), the top of the L2 index at
\* bit 41 and bit 42 above it (limb 3)
VaSamples ==
  { <<a, b, c, d>> : a \in {0, 1, 32768},
                     b \in {0, 1, 8191, 8192, 8193, 15360, 16128, 16383, 16384, 65535},
                     c \in {0, 1, 1023, 1024, 65535},
                     d \in {0, 65535} }

\* raw leaf descriptors handed to set_entry: an invalid one and a valid one
EntrySamples == {[VALID |-> 0, ADDR |-> 0, AP |-> 0], [VALID |-> 1, ADDR |-> 258, AP |-> 1]}

\* enum PagePerm
PagePerm == {"RW", "RO", "RWX"}

\* perm: u64 handed to PageTable::new: the four AP encodings and one value
\* wider than the two-bit field
PermSamples == {0, 1, 2, 3, 5}

(***************************************************************************)
(* Leaf descriptors and the user address space                             *)
(***************************************************************************)
\* RawL3Entry::new(0)
ZeroEntry == [VALID |-> 0, ADDR |-> 0, AP |-> 0]

\* L3Entry::is_valid
L3Entry_is_valid(e) == e.VALID # 0

\* a plausible slip: the address is handed out without looking at the
\* valid bit
L3Entry_get_page_addr_unchecked(e) == [some |-> TRUE, addr |-> e.ADDR]

\* L3Entry::get_page_addr
L3Entry_get_page_addr(e) ==
  IF L3Entry_is_valid(e) THEN [some |-> TRUE, addr |-> e.ADDR]
  ELSE [some |-> FALSE]

\* l3[l2_index].entries[l3_index] of a table kept sparsely: a slot that is
\* not in the domain holds RawL3Entry::new(0), as L3PageTable::new leaves it
EntryAt(tbl, slot) == IF slot \in DOMAIN tbl THEN tbl[slot] ELSE ZeroEntry

\* param::USER_IMG_BASE, the first user address. param.rs sets it; here a
\* granule-aligned address inside the window, 0x2000_0000, stands for it
USER_IMG_BASE == <<0, 8192, 0, 0>>

\* the user addresses the address spaces of Init have mapped
UserVas == {USER_IMG_BASE, <<0, 8193, 0, 0>>}

\* the physical page (address >> 16) backing a mapped user address
FrameOf(va) == 256 + (va[2] - USER_IMG_BASE[2])

\* the frames the allocator can hand out next
FramePool == 256..259

\* a user address space with the pages of `vas` installed, as alloc is
\* documented to install them (alloc itself is a stub: these states are
\* what its callers are promised, not what a call of it produces)
UserSpace(vas) ==
  [slot \in {locate(va).ret : va \in vas} |->
     LET va == CHOOSE v \in vas : locate(v).ret = slot
     IN [VALID |-> 1, ADDR |-> FrameOf(va), AP |-> 1]]

VARIABLES
  call,        \* the call observed last: operation, arguments, outcome
  l3,          \* leaf descriptors of the user address space, by slot
  frames,      \* page frames currently held from the frame allocator
  table_live,  \* the Box<PageTable> of the user address space is allocated
  depth,       \* frames of as_ptr on the stack of a running PageTable::new
  pc,          \* the statement kmain executes next (0: halted in a panic)
  vmm,         \* lifecycle state of VMM
  vmm_calls,   \* number of VMM.initialize() calls made
  boot_log     \* the calls kmain has made, in order, each with how it ended

vars == <<call, l3, frames, table_live, depth, pc, vmm, vmm_calls, boot_log>>

Idle == [op |-> "none", outcome |-> "returned"]

\* no call is being observed: the next one may be made
Ready == call = Idle

(***************************************************************************)
(* PageTable and its wrappers                                              *)
(***************************************************************************)
\* PageTable::is_valid
is_valid(va) == Panicked("not implemented: PageTable::is_valid()")

\* PageTable::set_entry: the effect of one call on the leaf descriptors
set_entry(va, entry) ==
  [res |-> Panicked("not implemented: PageTable::set_entry()"), l3 |-> l3]

\* PageTable::get_baddr
get_baddr == Panicked("not implemented: PageTable::get_baddr()")

\* L3PageTable::new, for each of the two tables: every entry L3Entry::new()
L3PageTable_new == [slot \in {} |-> ZeroEntry]

\* KernPageTable::new
KernPageTable_new == Panicked("not implemented: KernPageTable::new()")

\* a plausible slip: the frame is taken from the allocator before the
\* arguments are checked
alloc_frame_first(va, perm) ==
  [res |-> Panicked("not implemented: alloc()"),
   l3 |-> l3,
   frames |-> frames \cup {CHOOSE f \in FramePool : f \notin frames}]

\* a plausible slip: the slot is overwritten before the call fails
alloc_clobber(va, perm) ==
  [res |-> Panicked("not implemented: alloc()"),
   l3 |-> IF locate(va).outcome = "returned"
          THEN [s \in DOMAIN l3 \cup {locate(va).ret} |->
                  IF s = locate(va).ret THEN ZeroEntry ELSE l3[s]]
          ELSE l3,
   frames |-> frames]

\* UserPageTable::alloc: the effect of one call on the address space
alloc(va, perm) ==
  [res |-> Panicked("not implemented: alloc()"), l3 |-> l3, frames |-> frames]

\* dropping a UserPageTable: no Drop is implemented, so the drop glue frees
\* the Box<PageTable> and nothing else
drop_UserPageTable == [table_live |-> FALSE, frames |-> frames]

\* the end of installed RAM, which starts at physical address 0; the board
\* reports it at boot, here 0x3C00_0000 stands for it
RAM_END == <<0, 15360, 0, 0>>

\* IO_BASE, the start of the peripheral range (the pi crate sets it); here
\* 0x3F00_0000
IO_BASE == <<0, 16128, 0, 0>>

\* IO_BASE_END, the end of the peripheral range; here the end of the window,
\* 0x4000_0000
IO_BASE_END == <<0, 16384, 0, 0>>

(***************************************************************************)
(* VMM and kmain                                                           *)
(***************************************************************************)
\* VMManager::initialize
VMM_initialize ==
  IF vmm = "initialized"
  THEN [res |-> Panicked("VMM already initialized"), vmm |-> vmm]
  ELSE IF KernPageTable_new.outcome = "returned"
       THEN [res |-> Returned("unit"), vmm |-> "initialized"]
       ELSE [res |-> KernPageTable_new, vmm |-> vmm]

\* a plausible slip: the memory manager is brought up before the allocator
\* it builds its tables from
KmainOrder_vmm_first ==
  <<"VMM.initialize", "ALLOCATOR.initialize", "FILESYSTEM.initialize",
    "IRQ.initialize", "SCHEDULER.initialize", "SCHEDULER.start", "shell">>

\* the initialisation calls of kmain, in program order
KmainOrder ==
  <<"ALLOCATOR.initialize", "FILESYSTEM.initialize", "IRQ.initialize",
    "VMM.initialize", "SCHEDULER.initialize", "SCHEDULER.start", "shell">>

(***************************************************************************)
(* MasterBootRecord                                                        *)
(***************************************************************************)
MBR_SIZE == 512

VALID_BOOTSEC == 43605

INACTIVE_PART == 0

ACTIVE_PART == 128

\* offset of `pte` in MasterBootRecord: MBR_Bootstrap [u8; 436], disk_ID [u8; 10]
PteOffset == 446

\* size of PartitionEntry
PteSize == 16

\* offset of `signature`: after four partition entries
SignatureOffset == 510

\* pte[n].boot_indicator of the transmuted sector
boot_indicator(data, n) == data[PteOffset + PteSize * n]

\* mbr.signature: a little-endian u16
signature(data) == data[SignatureOffset] + 256 * data[SignatureOffset + 1]

Ok(v) == [tag |-> "Ok", val |-> v]

Err(e) == [tag |-> "Err", err |-> e]

\* a plausible slip: the loop keeps the last offending partition
verify_boot_indicators_last(data) ==
  LET bad == {n \in 0..3 : boot_indicator(data, n) # ACTIVE_PART
                           /\ boot_indicator(data, n) # INACTIVE_PART}
  IN IF bad = {} THEN Ok("unit")
     ELSE Err([kind |-> "UnknownBootIndicator",
               n |-> CHOOSE n \in bad : \A m \in bad : m <= n])

RECURSIVE verify_from(_, _)
\* the loop of verify_boot_indicators from partition n on
verify_from(data, n) ==
  IF n = 4 THEN Ok("unit")
  ELSE IF boot_indicator(data, n) # ACTIVE_PART /\ boot_indicator(data, n) # INACTIVE_PART
       THEN Err([kind |-> "UnknownBootIndicator", n |-> n])
       ELSE verify_from(data, n + 1)

\* MasterBootRecord::verify_boot_indicators
verify_boot_indicators(data) == verify_from(data, 0)

\* MasterBootRecord::from; `read` is what device.read_sector returned and
\* `data` the sector buffer it filled
MasterBootRecord_from(read, data) ==
  IF read.tag = "Err" THEN Err([kind |-> "Io"])
  ELSE IF read.val # MBR_SIZE THEN Err([kind |-> "Io"])
  ELSE IF signature(data) # VALID_BOOTSEC THEN Err([kind |-> "BadSignature"])
  ELSE IF verify_boot_indicators(data).tag = "Err" THEN verify_boot_indicators(data)
  ELSE Ok("mbr")

\* a 512-byte sector, zero but for the four boot indicators and the signature
Sector(b, s0, s1) ==
  [i \in 0..511 |->
     IF i >= 446 /\ i < 510 /\ (i - 446) % 16 = 0 THEN b[((i - 446) \div 16) + 1]
     ELSE IF i = 510 THEN s0
     ELSE IF i = 511 THEN s1
     ELSE 0]

IndicatorSamples == {0, 128, 255}

SignatureByteSamples == {0, 85, 170}

Sectors ==
  { Sector(<<b0, b1, b2, b3>>, s0, s1) :
      b0 \in IndicatorSamples, b1 \in IndicatorSamples,
      b2 \in IndicatorSamples, b3 \in IndicatorSamples,
      s0 \in SignatureByteSamples, s1 \in SignatureByteSamples }

\* what read_sector can hand back: a short read, a full sector, an I/O error
ShortReads == {Ok(0), Ok(511), Err("io")}

MbrInputs ==
  {[read |-> Ok(512), data |-> d] : d \in Sectors}
  \cup {[read |-> r, data |-> Sector(<<128, 0, 0, 0>>, 85, 170)] : r \in ShortReads}

(***************************************************************************)
(* Timestamp                                                               *)
(***************************************************************************)
RECURSIVE Pow2(_)
\* 2^n
Pow2(n) == IF n = 0 THEN 1 ELSE 2 * Pow2(n - 1)

\* fn truncate_bits(val: u16, least_sigbit: u16, num_bits: u16) -> u16; the
\* mask 0xFFFF >> (16 - num_bits) is num_bits low one bits, so `& mask` is
\* the remainder by mask + 1. Its two asserts hold at every call site
truncate_bits(val, least_sigbit, num_bits) ==
  LET mask == 65535 \div Pow2(16 - num_bits)
  IN (val \div Pow2(least_sigbit)) % (mask + 1)

\* impl traits::Timestamp for Timestamp: the six accessors of one timestamp
Timestamp_fields(date, time) ==
  [year   |-> truncate_bits(date, 9, 7) + 1980,
   month  |-> truncate_bits(date, 5, 4) % 256,
   day    |-> truncate_bits(date, 0, 5) % 256,
   hour   |-> truncate_bits(time, 11, 5) % 256,
   minute |-> truncate_bits(time, 5, 6) % 256,
   second |-> ((truncate_bits(time, 0, 5) * 2) % 65536) % 256]

\* on-disk dates: zero, 1 January 1980, 31 December 2107, month 13, month 15
\* with day 31, all ones
DateSamples == {0, 33, 65439, 417, 511, 65535}

\* on-disk times: midnight, 23:59:58, hour 24, minute 60, minute 63,
\* second field 30 and 31, all ones
TimeSamples == {0, 49021, 49152, 1920, 2016, 30, 31, 65535}

(***************************************************************************)
(* Bounds                                                                  *)
(***************************************************************************)
\* as_ptr frames the stack holds before it is exhausted
MaxDepth == 3

(***************************************************************************)
(* Initial states                                                          *)
(***************************************************************************)
Init ==
  /\ call = Idle
  /\ \E vas \in SUBSET UserVas :
       /\ l3 = UserSpace(vas)
       /\ frames = {FrameOf(va) : va \in vas}
  /\ table_live = TRUE
  /\ depth = 0
  /\ pc = 1
  /\ vmm = "uninitialized"
  /\ vmm_calls = 0
  /\ boot_log = <<>>

(***************************************************************************)
(* Actions                                                                 *)
(***************************************************************************)
CallLocate ==
  /\ Ready
  /\ \E va \in VaSamples :
       call' = [op |-> "locate", va |-> va] @@ locate(va)
  /\ UNCHANGED <<l3, frames, table_live, depth, pc, vmm, vmm_calls, boot_log>>

CallIsValid ==
  /\ Ready /\ table_live
  /\ \E va \in VaSamples :
       call' = [op |-> "is_valid", va |-> va] @@ is_valid(va)
  /\ UNCHANGED <<l3, frames, table_live, depth, pc, vmm, vmm_calls, boot_log>>

CallAlloc ==
  /\ Ready /\ table_live
  /\ \E va \in VaSamples, perm \in PagePerm :
       LET r == alloc(va, perm)
       IN /\ call' = [op |-> "alloc", va |-> va, perm |-> perm,
                      pre_l3 |-> l3, pre_frames |-> frames] @@ r.res
          /\ l3' = r.l3
          /\ frames' = r.frames
  /\ UNCHANGED <<table_live, depth, pc, vmm, vmm_calls, boot_log>>

CallSetEntry ==
  /\ Ready /\ table_live
  /\ \E va \in VaSamples, entry \in EntrySamples :
       LET r == set_entry(va, entry)
       IN /\ call' = [op |-> "set_entry", va |-> va, entry |-> entry,
                      pre_l3 |-> l3] @@ r.res
          /\ l3' = r.l3
  /\ UNCHANGED <<frames, table_live, depth, pc, vmm, vmm_calls, boot_log>>

CallGetBaddr ==
  /\ Ready /\ table_live
  /\ call' = [op |-> "get_baddr"] @@ get_baddr
  /\ UNCHANGED <<l3, frames, table_live, depth, pc, vmm, vmm_calls, boot_log>>

CallKernPageTableNew ==
  /\ Ready
  /\ call' = [op |-> "KernPageTable::new"] @@ KernPageTable_new
  /\ UNCHANGED <<l3, frames, table_live, depth, pc, vmm, vmm_calls, boot_log>>

\* PageTable::new up to its first call of as_ptr: the two tables are built
\* zeroed and the loop evaluates entry.as_ptr() for index 0
CallPageTableNew ==
  /\ Ready
  /\ \E perm \in PermSamples :
       call' = [op |-> "PageTable::new", perm |-> perm, outcome |-> "running",
                l3_new |-> [i \in 0..(NUM_L3 - 1) |-> L3PageTable_new]]
  /\ depth' = 1
  /\ UNCHANGED <<l3, frames, table_live, pc, vmm, vmm_calls, boot_log>>

\* L3PageTable::as_ptr: its body calls as_ptr on the same receiver
L3AsPtr ==
  /\ call.outcome = "running"
  /\ depth < MaxDepth
  /\ depth' = depth + 1
  /\ UNCHANGED <<call, l3, frames, table_live, pc, vmm, vmm_calls, boot_log>>

\* no frame of as_ptr ever returns: the recursion ends when the stack does
StackExhausted ==
  /\ call.outcome = "running"
  /\ depth = MaxDepth
  /\ call' = [call EXCEPT !.outcome = "stack_exhausted"]
  /\ depth' = 0
  /\ UNCHANGED <<l3, frames, table_live, pc, vmm, vmm_calls, boot_log>>

DropUserPageTable ==
  /\ Ready /\ table_live
  /\ call' = [op |-> "drop", pre_l3 |-> l3, outcome |-> "returned"]
  /\ table_live' = drop_UserPageTable.table_live
  /\ frames' = drop_UserPageTable.frames
  /\ UNCHANGED <<l3, depth, pc, vmm, vmm_calls, boot_log>>

\* one statement of kmain's unsafe block; a panic halts the kernel
KmainStep ==
  /\ pc \in 1..(Len(KmainOrder) - 1)
  /\ IF KmainOrder[pc] = "VMM.initialize"
     THEN /\ vmm' = VMM_initialize.vmm
          /\ vmm_calls' = vmm_calls + 1
          /\ pc' = IF VMM_initialize.res.outcome = "returned" THEN pc + 1 ELSE 0
          /\ boot_log' = Append(boot_log, [stmt |-> KmainOrder[pc],
                                           outcome |-> VMM_initialize.res.outcome])
     ELSE /\ pc' = pc + 1
          /\ boot_log' = Append(boot_log, [stmt |-> KmainOrder[pc],
                                           outcome |-> "returned"])
          /\ UNCHANGED <<vmm, vmm_calls>>
  /\ UNCHANGED <<call, l3, frames, table_live, depth>>

CallTimestamp ==
  /\ Ready
  /\ \E date \in DateSamples, time \in TimeSamples :
       call' = [op |-> "Timestamp", date |-> date, time |-> time,
                outcome |-> "returned", ret |-> Timestamp_fields(date, time)]
  /\ UNCHANGED <<l3, frames, table_live, depth, pc, vmm, vmm_calls, boot_log>>

CallMbrFrom ==
  /\ Ready
  /\ \E in \in MbrInputs :
       call' = [op |-> "MasterBootRecord::from", read |-> in.read, data |-> in.data,
                outcome |-> "returned", ret |-> MasterBootRecord_from(in.read, in.data)]
  /\ UNCHANGED <<l3, frames, table_live, depth, pc, vmm, vmm_calls, boot_log>>

\* the observed call has ended and its record is put away
CallEnd ==
  /\ call # Idle
  /\ call.outcome # "running"
  /\ call' = Idle
  /\ UNCHANGED <<l3, frames, table_live, depth, pc, vmm, vmm_calls, boot_log>>

Next ==
  \/ CallLocate
  \/ CallIsValid
  \/ CallAlloc
  \/ CallKernPageTableNew
  \/ CallPageTableNew
  \/ L3AsPtr
  \/ StackExhausted
  \/ DropUserPageTable
  \/ KmainStep
  \/ CallMbrFrom
  \/ CallTimestamp
  \/ CallSetEntry
  \/ CallGetBaddr
  \/ CallEnd

Spec == Init /\ [][Next]_vars

(***************************************************************************)
(* What the claims speak of                                                *)
(***************************************************************************)
\* the end of the window the NUM_L3 L3 tables cover: 2 * 8192 * 65536
WindowEnd == ShlU64_16(NUM_L3 * L3_ENTRIES)

Aligned(va) == va[1] = 0

InWindow(va) == LtU64(va, WindowEnd)

\* the valid bit of the leaf descriptor va decomposes to, in table tbl
SlotValid(tbl, va) ==
  /\ locate(va).outcome = "returned"
  /\ L3Entry_is_valid(EntryAt(tbl, locate(va).ret))

InRam(va) == LtU64(va, RAM_END)

InMmio(va) == ~LtU64(va, IO_BASE) /\ LtU64(va, IO_BASE_END)

\* the boot indicators of a sector that are neither 0x00 nor 0x80
BadIndicators(d) == {n \in 0..3 : d[446 + 16 * n] \notin {0, 128}}

SignatureGood(d) == d[510] = 85 /\ d[511] = 170

(***************************************************************************)
(* C1: alloc(va, perm) on a granule-aligned va >= USER_IMG_BASE inside the *)
(* window whose slot is invalid returns; afterwards is_valid(va) is true,  *)
(* the frame address in va's leaf descriptor is the physical address of    *)
(* the page returned, and the validity of every other address is as it     *)
(* was before the call.                                                    *)
(***************************************************************************)
C1_AllocMaps ==
  (/\ call.op = "alloc"
   /\ Aligned(call.va) /\ InWindow(call.va) /\ ~LtU64(call.va, USER_IMG_BASE)
   /\ ~SlotValid(call.pre_l3, call.va))
  => /\ call.outcome = "returned"
     /\ is_valid(call.va) = Returned(TRUE)
     /\ EntryAt(l3, locate(call.va).ret).ADDR = call.ret
     /\ \A v \in VaSamples \ {call.va} :
          SlotValid(l3, v) = SlotValid(call.pre_l3, v)

C3_LowVaFails ==
  (call.op = "alloc" /\ LtU64(call.va, USER_IMG_BASE))
  => /\ call.outcome = "panicked"
     /\ frames = call.pre_frames
     /\ l3 = call.pre_l3

C3_Witness ==
  /\ call.op = "alloc"
  /\ Aligned(call.va)
  /\ LtU64(call.va, USER_IMG_BASE)
  /\ call.outcome = "panicked"
  /\ frames # {}

(***************************************************************************)
(* C4: KernPageTable::new() returns a table in which is_valid holds of     *)
(* every granule-aligned address of the RAM range and of the peripheral    *)
(* range IO_BASE..IO_BASE_END, and of no other address of the window.      *)
(***************************************************************************)
C4_KernelMap ==
  (call.op = "KernPageTable::new")
  => /\ call.outcome = "returned"
     /\ \A va \in VaSamples :
          (Aligned(va) /\ InWindow(va))
          => (SlotValid(call.ret, va) <=> (InRam(va) \/ InMmio(va)))

C6_LocateRejectsOutside ==
  (call.op = "locate" /\ Aligned(call.va) /\ ~InWindow(call.va))
  => call.outcome = "panicked"

(***************************************************************************)
(* C7: PageTable::new(X) returns a page table whose L2 descriptor          *)
(* entries[i], for each of the NUM_L3 L3 tables, has permission field X,   *)
(* the valid bit set, type table, the access flag set, inner-shareable,    *)
(* normal memory; every L2 entry with index >= NUM_L3 is zero.             *)
(***************************************************************************)
C7_NewSetsL2 ==
  (call.op = "PageTable::new" /\ call.outcome # "running")
  => /\ call.outcome = "returned"
     /\ DOMAIN call.ret.l2 = 0..(NUM_L3 - 1)
     /\ \A i \in 0..(NUM_L3 - 1) :
          /\ call.ret.l2[i].AP = call.perm
          /\ call.ret.l2[i].VALID = "Valid"
          /\ call.ret.l2[i].TYPE = "Table"
          /\ call.ret.l2[i].AF = 1
          /\ call.ret.l2[i].SH = "ISh"
          /\ call.ret.l2[i].ATTR = "Mem"

(***************************************************************************)
(* C8: VMM goes from uninitialized to initialized with the first           *)
(* initialize() call and never back; kmain calls VMM.initialize() exactly  *)
(* once.                                                                   *)
(***************************************************************************)
C8_VmmLifecycle ==
  /\ vmm_calls <= 1
  /\ (vmm_calls = 0 => vmm = "uninitialized")
  /\ (vmm_calls >= 1 => vmm = "initialized")

C10_MbrFrom ==
  (call.op = "MasterBootRecord::from")
  => IF call.read.tag = "Ok" /\ call.read.val = 512
     THEN /\ ~SignatureGood(call.data)
             => call.ret = Err([kind |-> "BadSignature"])
          /\ (SignatureGood(call.data) /\ BadIndicators(call.data) # {})
             => \E n \in BadIndicators(call.data) :
                  /\ \A m \in BadIndicators(call.data) : n <= m
                  /\ call.ret = Err([kind |-> "UnknownBootIndicator", n |-> n])
          /\ call.ret.tag = "Ok"
             <=> (SignatureGood(call.data) /\ BadIndicators(call.data) = {})
     ELSE call.read.tag = "Ok" => call.ret = Err([kind |-> "Io"])

C10_Witness ==
  /\ call.op = "MasterBootRecord::from"
  /\ call.read.tag = "Ok" /\ call.read.val = 512
  /\ SignatureGood(call.data)
  /\ BadIndicators(call.data) = {1, 3}
  /\ call.ret = Err([kind |-> "UnknownBootIndicator", n |-> 1])

(***************************************************************************)
(* C11: for every 16-bit date and time a Timestamp holds, month() is in    *)
(* 1..12, day() in 1..31, hour() in 0..23, minute() in 0..59 and second()  *)
(* in 0..59.                                                               *)
(***************************************************************************)
C11_TimestampRanges ==
  (call.op = "Timestamp")
  => /\ call.ret.month \in 1..12
     /\ call.ret.day \in 1..31
     /\ call.ret.hour \in 0..23
     /\ call.ret.minute \in 0..59
     /\ call.ret.second \in 0..59

(***************************************************************************)
(* C12: a PageTable::new call that has ended returned a page table whose   *)
(* L2 descriptor entries[i] holds, for each i below NUM_L3, the physical   *)
(* base address of that table's own l3[i] shifted right by 16.             *)
(***************************************************************************)
C12_NewPointsAtOwnL3 ==
  (call.op = "PageTable::new" /\ call.outcome # "running")
  => /\ call.outcome = "returned"
     /\ \A i \in 0..(NUM_L3 - 1) :
          call.ret.l2[i].ADDR = Shr16(call.ret.l3_baddr[i])

(***************************************************************************)
(* C13: PageTable::new ends by returning: no as_ptr call it makes calls    *)
(* as_ptr again, and the call never ends with the stack used up.           *)
(***************************************************************************)
C13_NewTerminates ==
  (call.op = "PageTable::new")
  => /\ depth <= 1
     /\ call.outcome \in {"running", "returned"}

(***************************************************************************)
(* C14: set_entry(va, d) on an address locate accepts returns, leaves d in *)
(* the slot locate(va) names and every other leaf descriptor as it was;    *)
(* get_baddr returns the base address of the table's L2 table.             *)
(***************************************************************************)
C14_SetEntry ==
  /\ (call.op = "set_entry" /\ Aligned(call.va) /\ InWindow(call.va))
     => /\ call.outcome = "returned"
        /\ EntryAt(l3, locate(call.va).ret) = call.entry
        /\ \A slot \in (DOMAIN l3 \cup DOMAIN call.pre_l3) \ {locate(call.va).ret} :
             EntryAt(l3, slot) = EntryAt(call.pre_l3, slot)
  /\ (call.op = "get_baddr") => call.outcome = "returned"

(***************************************************************************)
(* C15: locate(va) halts on its alignment assertion for every va that is   *)
(* not a multiple of PAGE_SIZE, and returns a pair only for aligned va.    *)
(***************************************************************************)
C15_LocateRejectsMisaligned ==
  (call.op = "locate")
  => /\ ~Aligned(call.va) => call = [op |-> "locate", va |-> call.va] @@ Panicked("assert_eq")
     /\ call.outcome = "returned" => Aligned(call.va)

C15_Witness ==
  /\ call.op = "locate"
  /\ call.va = <<32768, 8192, 0, 0>>
  /\ call.outcome = "panicked"

\* the entries of kmain's log before position j
Before(j) == {boot_log[i] : i \in 1..(j - 1)}

(***************************************************************************)
(* C16: in kmain, VMM.initialize() is called only after                    *)
(* ALLOCATOR.initialize() has returned, and SCHEDULER.initialize() and     *)
(* SCHEDULER.start() are called only after VMM.initialize() has returned:  *)
(* while VMM.initialize() has not returned, the scheduler is not touched.  *)
(***************************************************************************)
C16_BootOrder ==
  /\ \A j \in DOMAIN boot_log :
       /\ boot_log[j].stmt = "VMM.initialize"
          => [stmt |-> "ALLOCATOR.initialize", outcome |-> "returned"] \in Before(j)
       /\ boot_log[j].stmt \in {"SCHEDULER.initialize", "SCHEDULER.start"}
          => [stmt |-> "VMM.initialize", outcome |-> "returned"] \in Before(j)
  /\ [stmt |-> "VMM.initialize", outcome |-> "returned"] \notin Before(Len(boot_log) + 1)
     => \A j \in DOMAIN boot_log :
          boot_log[j].stmt \notin {"SCHEDULER.initialize", "SCHEDULER.start"}

C16_Witness ==
  /\ Len(boot_log) = 4
  /\ boot_log[1] = [stmt |-> "ALLOCATOR.initialize", outcome |-> "returned"]
  /\ boot_log[4].stmt = "VMM.initialize"
  /\ pc = 0

\* the slots the sampled addresses decompose to
SampleSlots ==
  {locate(va).ret : va \in {v \in VaSamples : Aligned(v) /\ InWindow(v)}}

====
